---- MODULE Spec2Model ----
(***************************************************************************)
(* demo-app/server.py: a Flask application with two view functions,        *)
(* healthz and version.  The model covers the process environment table    *)
(* (os.environ), the URL map that Flask(__name__) and the two @app.route   *)
(* decorators build, the dispatch of a request to a view function, and the *)
(* requests in flight in the serving process.                              *)
(*                                                                         *)
(* A URL path is the sequence of its segments after the leading slash:     *)
(* "/healthz" is <<"healthz">>, "/healthz/" is <<"healthz", "">>,          *)
(* "/static/app.js" is <<"static", "app.js">>.                             *)
(***************************************************************************)
EXTENDS Naturals, Sequences, FiniteSets

VARIABLES environ, inflight

vars == <<environ, inflight>>

\* ---------------------------------------------------------------- bounds
\* Connections the server serves at the same time, one request on each.
MaxInFlight == 2

Connections == 1..MaxInFlight

\* ---------------------------------------------------------------- inputs
Methods == {"GET", "HEAD", "OPTIONS", "POST"}

\* The two application paths, a path no rule matches (an application path
\* with a trailing slash) and a path under the static route.
Paths == { <<"healthz">>, <<"version">>, <<"healthz", "">>,
           <<"static", "app.js">> }

\* Values APP_VERSION is given from outside the application.
EnvValues == {"", "1.2.3", "2.0.0"}

\* The environment tables of the model: APP_VERSION unset, or set to a value.
NoEnv == [k \in {} |-> ""]

Environs == {NoEnv} \cup {[k \in {"APP_VERSION"} |-> v] : v \in EnvValues}

\* ------------------------------------------------------------ os.environ
\* os.environ.get(key, default): the value stored under key, and default
\* only when the key is absent (an empty value is a stored value).
environ_get(env, key, default) ==
    IF key \in DOMAIN env THEN env[key] ELSE default

\* os.environ[key] = value
environ_set(env, key, value) ==
    [k \in DOMAIN env \cup {key} |-> IF k = key THEN value ELSE env[k]]

\* del os.environ[key]
environ_del(env, key) ==
    [k \in DOMAIN env \ {key} |-> env[k]]

\* ------------------------------------------------------------------ JSON
\* Flask's JSON provider outside debug mode: compact separators, keys in
\* insertion order, a trailing newline.
RECURSIVE JsonItems(_, _)
JsonItems(d, keys) ==
    IF keys = {} THEN ""
    ELSE LET k == CHOOSE x \in keys : TRUE
             rest == keys \ {k}
         IN  "\"" \o k \o "\":\"" \o d[k] \o "\""
             \o (IF rest = {} THEN "" ELSE "," \o JsonItems(d, rest))

JsonDumps(d) == "{" \o JsonItems(d, DOMAIN d) \o "}"

jsonify(d) == JsonDumps(d) \o "\n"

\* -------------------------------------------------------- view functions
\* A view function maps the environment table it runs against to its return
\* value (rv) and the environment table it leaves behind (environ).

\* def healthz(): return {"status":"ok"}
healthz_uppercase(env) ==
    [rv |-> [status |-> "OK"], environ |-> env]

healthz_degraded(env) ==
    [rv |-> [status |-> IF \E c \in Connections : inflight[c].pc = "handled"
                        THEN "busy" ELSE "ok"],
     environ |-> env]

healthz(env) ==
    [rv |-> [status |-> "ok"], environ |-> env]

\* def version(): return os.environ.get("APP_VERSION", "unknown")
version_wrong_key(env) ==
    [rv |-> environ_get(env, "VERSION", "unknown"), environ |-> env]

version_wrong_default(env) ==
    [rv |-> environ_get(env, "APP_VERSION", "Unknown"), environ |-> env]

version_or_default(env) ==
    [rv |-> IF environ_get(env, "APP_VERSION", "") = "" THEN "unknown"
            ELSE env["APP_VERSION"],
     environ |-> env]

version_setdefault(env) ==
    [rv |-> environ_get(env, "APP_VERSION", "unknown"),
     environ |-> IF "APP_VERSION" \in DOMAIN env THEN env
                 ELSE environ_set(env, "APP_VERSION", "unknown")]

version_memoized(env) ==
    LET earlier == {c \in Connections : /\ inflight[c].pc = "handled"
                                         /\ inflight[c].method = "GET"
                                         /\ inflight[c].path = <<"version">>}
    IN  [rv |-> IF earlier = {}
                THEN environ_get(env, "APP_VERSION", "unknown")
                ELSE inflight[CHOOSE c \in earlier : TRUE].response.data,
         environ |-> env]

version(env) ==
    [rv |-> environ_get(env, "APP_VERSION", "unknown"), environ |-> env]

\* Files under demo-app/static: the repository has no such directory.
StaticFiles == {}


\* ------------------------------------------------------------- responses
Response(status, mimetype, data, allow) ==
    [status |-> status, mimetype |-> mimetype, data |-> data, allow |-> allow]

\* A request that has no response yet.
NoResponse == Response(0, "", "", {})

\* werkzeug.exceptions.NotFound and MethodNotAllowed, as Flask renders them.
NotFound == Response(404, "text/html", "Not Found", {})

MethodNotAllowed(valid_methods) ==
    Response(405, "text/html", "Method Not Allowed", valid_methods)

\* --------------------------------------------------------------- URL map
\* Flask.add_url_rule: werkzeug adds HEAD to a rule that has GET, and Flask
\* adds OPTIONS, answered automatically, to a rule that does not list it.
add_url_rule(pattern, converter, endpoint, methods) ==
    [pattern |-> pattern, converter |-> converter, endpoint |-> endpoint,
     methods |-> methods \cup (IF "GET" \in methods THEN {"HEAD"} ELSE {})
                         \cup {"OPTIONS"},
     provide_automatic_options |-> "OPTIONS" \notin methods]

\* @app.route(rule) with no methods argument: GET only.
route_get_post(pattern, endpoint) ==
    add_url_rule(pattern, "", endpoint, {"GET", "POST"})

route(pattern, endpoint) ==
    add_url_rule(pattern, "", endpoint, {"GET"})

\* The rules of app.url_map: Flask(__name__) registers the static route
\* /static/<path:filename>, the decorators the two application routes.
url_map ==
    { add_url_rule(<<"static">>, "path", "static", {"GET"}),
      route(<<"healthz">>, "healthz"),
      route(<<"version">>, "version") }

\* Whether a rule matches a path.  A rule without converter matches its own
\* path only (a rule written without trailing slash does not match the path
\* with one); <path:filename> matches one or more segments, the first of
\* them not empty.
rule_matches_loose(rule, path) ==
    IF rule.converter = "path"
    THEN /\ Len(path) > Len(rule.pattern)
         /\ SubSeq(path, 1, Len(rule.pattern)) = rule.pattern
         /\ path[Len(rule.pattern) + 1] # ""
    ELSE \/ path = rule.pattern
         \/ path = rule.pattern \o <<"">>

rule_matches(rule, path) ==
    IF rule.converter = "path"
    THEN /\ Len(path) > Len(rule.pattern)
         /\ SubSeq(path, 1, Len(rule.pattern)) = rule.pattern
         /\ path[Len(rule.pattern) + 1] # ""
    ELSE path = rule.pattern

\* Flask.send_static_file: the file under the static folder, or NotFound.
send_static_file(env, filename) ==
    [response |-> IF filename \in StaticFiles
                  THEN Response(200, "application/octet-stream", "file", {})
                  ELSE NotFound,
     environ |-> env]

\* Flask.dispatch_request followed by make_response: the view function of
\* the matched rule is called and its return value made a response (a dict
\* through jsonify, a str as the text of a 200 response).
call_view(rule, path, env) ==
    IF rule.endpoint = "healthz"
    THEN LET r == healthz(env)
         IN  [response |-> Response(200, "application/json", jsonify(r.rv), {}),
              environ |-> r.environ]
    ELSE IF rule.endpoint = "version"
    THEN LET r == version(env)
         IN  [response |-> Response(200, "text/html", r.rv, {}),
              environ |-> r.environ]
    ELSE send_static_file(env, SubSeq(path, Len(rule.pattern) + 1, Len(path)))

\* Flask.full_dispatch_request: URL matching, the method check, automatic
\* OPTIONS, then the view function.
full_dispatch_request(method, path, env) ==
    LET matched == {rule \in url_map : rule_matches(rule, path)}
    IN  IF matched = {}
        THEN [response |-> NotFound, environ |-> env]
        ELSE LET rule == CHOOSE r \in matched : TRUE
             IN  IF method \notin rule.methods
                 THEN [response |-> MethodNotAllowed(rule.methods),
                       environ |-> env]
                 ELSE IF rule.provide_automatic_options /\ method = "OPTIONS"
                 THEN [response |-> Response(200, "text/html", "", rule.methods),
                       environ |-> env]
                 ELSE call_view(rule, path, env)

\* Flask.wsgi_app: the response to a HEAD request is sent without its body.
wsgi_app(method, path, env) ==
    LET r == full_dispatch_request(method, path, env)
    IN  IF method = "HEAD"
        THEN [response |-> [r.response EXCEPT !.data = ""], environ |-> r.environ]
        ELSE r

\* ---------------------------------------------------------- state machine
\* inflight[c] is the request being served on connection c.  pc is "idle"
\* when there is none, "received" until the application has handled the
\* request; a handled request carries the environment table its handler ran
\* against and the response that is about to be sent.
Idle ==
    [method |-> "", path |-> <<>>, pc |-> "idle", environ |-> NoEnv,
     response |-> NoResponse]

Requests ==
    [method : Methods, path : Paths, pc : {"received", "handled"},
     environ : Environs,
     response : [status : {0, 200, 404, 405},
                 mimetype : {"", "text/html", "application/json"},
                 data : STRING, allow : SUBSET Methods]]

Init ==
    /\ environ \in Environs
    /\ inflight = [c \in Connections |-> Idle]

\* A request arrives on an idle connection.
Arrive(c, method, path) ==
    /\ inflight[c].pc = "idle"
    /\ inflight' = [inflight EXCEPT ![c] =
          [method |-> method, path |-> path, pc |-> "received",
           environ |-> NoEnv, response |-> NoResponse]]
    /\ UNCHANGED environ

\* The application handles a received request against the current
\* environment table.
Handle(c) ==
    /\ inflight[c].pc = "received"
    /\ LET r == wsgi_app(inflight[c].method, inflight[c].path, environ)
       IN  /\ inflight' = [inflight EXCEPT ![c].pc = "handled",
                                           ![c].environ = environ,
                                           ![c].response = r.response]
           /\ environ' = r.environ

\* The response of a handled request is sent and the connection is idle
\* again.
Respond(c) ==
    /\ inflight[c].pc = "handled"
    /\ inflight' = [inflight EXCEPT ![c] = Idle]
    /\ UNCHANGED environ

\* APP_VERSION is set or changed in the running process, from outside the
\* application code.
SetAppVersion(v) ==
    /\ environ' = environ_set(environ, "APP_VERSION", v)
    /\ environ' # environ
    /\ UNCHANGED inflight

\* APP_VERSION is removed from the environment of the running process.
UnsetAppVersion ==
    /\ "APP_VERSION" \in DOMAIN environ
    /\ environ' = environ_del(environ, "APP_VERSION")
    /\ UNCHANGED inflight

Next ==
    \/ \E c \in Connections, method \in Methods, path \in Paths :
          Arrive(c, method, path)
    \/ \E c \in Connections : Handle(c)
    \/ \E c \in Connections : Respond(c)
    \/ \E v \in EnvValues : SetAppVersion(v)
    \/ UnsetAppVersion

Spec == Init /\ [][Next]_vars

TypeOK ==
    /\ environ \in Environs
    /\ \A c \in Connections : inflight[c] = Idle \/ inflight[c] \in Requests

\* ---------------------------------------------------------------- claims
\* What a client makes of the responses.

\* The request on connection c has been handled.
Handled(c) == inflight[c].pc = "handled"

\* The request on connection c is a handled request of this method and path.
HandledAs(c, method, path) ==
    /\ Handled(c)
    /\ inflight[c].method = method
    /\ inflight[c].path = path

Is2xx(response) == response.status >= 200 /\ response.status < 300

AppVersionSet(env) == "APP_VERSION" \in DOMAIN env

\* The JSON objects a body is read back as: the mappings whose encoding is
\* the body's text.
JsonObjects ==
    UNION {[keys -> {"ok", "OK", "busy", "error"}] : keys \in SUBSET {"status"}}

JsonLoads(text) == {m \in JsonObjects : jsonify(m) = text}

ApplicationPaths == {<<"healthz">>, <<"version">>}

UnderStatic(path) == Len(path) > 1 /\ path[1] = "static" /\ path[2] # ""

\* C1: whatever APP_VERSION was when it was handled (unset, empty or any
\* string) and whatever happened before, a GET /healthz is answered with
\* status 200 and a body that reads back as the mapping {"status": "ok"}.
C1_HealthzAlwaysOk ==
    \A c \in Connections :
        HandledAs(c, "GET", <<"healthz">>) =>
            /\ inflight[c].response.status = 200
            /\ JsonLoads(inflight[c].response.data) = {[status |-> "ok"]}

\* C1 witness: GET /healthz handled with APP_VERSION set to the empty string
\* next to one handled with it unset.
C1_Witness ==
    \E c, d \in Connections :
        /\ HandledAs(c, "GET", <<"healthz">>)
        /\ HandledAs(d, "GET", <<"healthz">>)
        /\ inflight[c].environ = [k \in {"APP_VERSION"} |-> ""]
        /\ inflight[d].environ = NoEnv

\* C2: a GET /version handled while APP_VERSION is set to a non-empty string
\* v is answered with status 200 and the body v.
C2_VersionIsAppVersion ==
    \A c \in Connections :
        /\ HandledAs(c, "GET", <<"version">>)
        /\ AppVersionSet(inflight[c].environ)
        /\ inflight[c].environ["APP_VERSION"] # ""
        => /\ inflight[c].response.status = 200
           /\ inflight[c].response.data = inflight[c].environ["APP_VERSION"]

\* C2 witness: GET /version handled while APP_VERSION is "1.2.3".
C2_Witness ==
    \E c \in Connections :
        /\ HandledAs(c, "GET", <<"version">>)
        /\ inflight[c].environ = [k \in {"APP_VERSION"} |-> "1.2.3"]
        /\ inflight[c].response.data = "1.2.3"

\* C3: a GET /version handled while APP_VERSION is unset is answered with
\* status 200 and the body "unknown".
C3_VersionUnsetIsUnknown ==
    \A c \in Connections :
        /\ HandledAs(c, "GET", <<"version">>)
        /\ ~AppVersionSet(inflight[c].environ)
        => /\ inflight[c].response.status = 200
           /\ inflight[c].response.data = "unknown"

\* C3 witness: GET /version handled while APP_VERSION is unset.
C3_Witness ==
    \E c \in Connections :
        /\ HandledAs(c, "GET", <<"version">>)
        /\ inflight[c].environ = NoEnv
        /\ inflight[c].response.status = 200

\* C4: no caching.  Whatever requests and changes of APP_VERSION came
\* before, the body of a GET /version response is the value APP_VERSION had
\* when that request was handled, or "unknown" if it was unset then.
C4_VersionNeverCached ==
    \A c \in Connections :
        HandledAs(c, "GET", <<"version">>) =>
            inflight[c].response.data =
                IF AppVersionSet(inflight[c].environ)
                THEN inflight[c].environ["APP_VERSION"]
                ELSE "unknown"

\* C4 witness: two GET /version requests handled on either side of a change
\* of APP_VERSION, the earlier one not yet sent, with different bodies.
C4_Witness ==
    \E c, d \in Connections :
        /\ HandledAs(c, "GET", <<"version">>)
        /\ HandledAs(d, "GET", <<"version">>)
        /\ inflight[c].environ # inflight[d].environ
        /\ inflight[d].environ = environ
        /\ inflight[c].response.data # inflight[d].response.data

\* C5 as claimed: a GET /version handled while APP_VERSION is set to the
\* empty string is answered with the body "unknown".
C5_EmptyIsUnknown ==
    \A c \in Connections :
        /\ HandledAs(c, "GET", <<"version">>)
        /\ AppVersionSet(inflight[c].environ)
        /\ inflight[c].environ["APP_VERSION"] = ""
        => inflight[c].response.data = "unknown"

\* C5 as amended: a GET /version handled while APP_VERSION is set to the
\* empty string is answered with status 200 and the empty body; only an
\* unset variable gives "unknown".
C5_EmptyIsEmpty ==
    \A c \in Connections :
        /\ HandledAs(c, "GET", <<"version">>)
        /\ AppVersionSet(inflight[c].environ)
        /\ inflight[c].environ["APP_VERSION"] = ""
        => /\ inflight[c].response.status = 200
           /\ inflight[c].response.data = ""

\* C5 witness: GET /version handled while APP_VERSION is the empty string.
C5_Witness ==
    \E c \in Connections :
        /\ HandledAs(c, "GET", <<"version">>)
        /\ inflight[c].environ = [k \in {"APP_VERSION"} |-> ""]

\* C6 as claimed: on /healthz and /version every request whose method is not
\* GET is answered with a status that is not 2xx.
C6_OnlyGetSucceeds ==
    \A c \in Connections :
        /\ Handled(c)
        /\ inflight[c].path \in ApplicationPaths
        /\ inflight[c].method # "GET"
        => ~Is2xx(inflight[c].response)

\* C6 as amended: on /healthz and /version, GET, HEAD and OPTIONS are
\* answered 200 (HEAD without a body, OPTIONS with an empty body and the
\* Allow list GET, HEAD, OPTIONS); every other method is rejected with 405.
C6_GetHeadOptionsSucceed ==
    \A c \in Connections :
        /\ Handled(c)
        /\ inflight[c].path \in ApplicationPaths
        => /\ inflight[c].method \in {"GET", "HEAD", "OPTIONS"}
                => inflight[c].response.status = 200
           /\ inflight[c].method \notin {"GET", "HEAD", "OPTIONS"}
                => inflight[c].response.status = 405
           /\ inflight[c].method = "HEAD" => inflight[c].response.data = ""
           /\ inflight[c].method = "OPTIONS"
                => /\ inflight[c].response.data = ""
                   /\ inflight[c].response.allow = {"GET", "HEAD", "OPTIONS"}

\* C6 witness: a POST to /version rejected with 405 next to a HEAD /healthz
\* answered 200.
C6_Witness ==
    \E c, d \in Connections :
        /\ HandledAs(c, "POST", <<"version">>)
        /\ inflight[c].response.status = 405
        /\ HandledAs(d, "HEAD", <<"healthz">>)
        /\ inflight[d].response.status = 200

\* C7 as claimed: every request to a path other than /healthz and /version,
\* with any method, is answered with a status that is not 2xx.
C7_OtherPathsFail ==
    \A c \in Connections :
        /\ Handled(c)
        /\ inflight[c].path \notin ApplicationPaths
        => ~Is2xx(inflight[c].response)

\* C7 as amended: a request to a path other than /healthz and /version is
\* answered 404 or 405, except an OPTIONS request to a path under /static/
\* (the static route Flask(__name__) registers), which is answered 200 with
\* an empty body and the Allow list; no such path answers GET with 2xx.
C7_OtherPathsFailButStaticOptions ==
    \A c \in Connections :
        /\ Handled(c)
        /\ inflight[c].path \notin ApplicationPaths
        => IF inflight[c].method = "OPTIONS" /\ UnderStatic(inflight[c].path)
           THEN /\ inflight[c].response.status = 200
                /\ inflight[c].response.data = ""
                /\ inflight[c].response.allow = {"GET", "HEAD", "OPTIONS"}
           ELSE /\ inflight[c].response.status \in {404, 405}
                /\ inflight[c].method \in {"GET", "HEAD"}
                      => inflight[c].response.status = 404

\* C7 witness: GET /healthz/ answered 404 next to an OPTIONS request under
\* /static/ answered 200.
C7_Witness ==
    \E c, d \in Connections :
        /\ HandledAs(c, "GET", <<"healthz", "">>)
        /\ inflight[c].response.status = 404
        /\ HandledAs(d, "OPTIONS", <<"static", "app.js">>)
        /\ inflight[d].response.status = 200

\* C8: a step of request handling (arrival, handler, response: any step that
\* changes a request in flight) leaves the environment table as it was; in
\* particular GET /version with APP_VERSION unset does not store "unknown".
C8_RequestsLeaveEnvironAlone ==
    [][inflight' # inflight => environ' = environ]_vars

\* C8 witness: GET /version was handled with APP_VERSION unset, answered
\* "unknown", and APP_VERSION is still unset.
C8_Witness ==
    \E c \in Connections :
        /\ HandledAs(c, "GET", <<"version">>)
        /\ inflight[c].response.data = "unknown"
        /\ inflight[c].environ = NoEnv
        /\ environ = NoEnv

\* C9: the response is a function of the method, the path and the value of
\* APP_VERSION at handling time only: two handled requests that agree on
\* these three carry the same response, whatever was handled before each.
C9_Stateless ==
    \A c, d \in Connections :
        /\ Handled(c) /\ Handled(d)
        /\ inflight[c].method = inflight[d].method
        /\ inflight[c].path = inflight[d].path
        /\ inflight[c].environ = inflight[d].environ
        => inflight[c].response = inflight[d].response

\* C9 witness: the same request handled on two connections under the same
\* APP_VERSION, one of them after the other had been handled, and
\* APP_VERSION changed since.
C9_Witness ==
    \E c, d \in Connections :
        /\ c # d
        /\ HandledAs(c, "GET", <<"version">>)
        /\ HandledAs(d, "GET", <<"version">>)
        /\ inflight[c].environ = inflight[d].environ
        /\ inflight[c].environ # environ
        /\ inflight[c].response.status = 200

\* C10: with requests in flight on several connections and APP_VERSION
\* changing under them, the step that handles a GET /version lies between
\* the request's arrival and its response and gives it the value APP_VERSION
\* has at that step ("unknown" if unset); the step that handles a
\* GET /healthz gives it {"status": "ok"}; and no step of another request or
\* of the environment changes a request or its response: a received request
\* stays as it is until it is handled, a handled one until it is sent.
C10_ConcurrentRequestsIndependent ==
    [][\A c \in Connections :
          /\ inflight[c].pc = "received" =>
                /\ inflight'[c].pc \in {"received", "handled"}
                /\ inflight'[c].method = inflight[c].method
                /\ inflight'[c].path = inflight[c].path
                /\ inflight'[c].pc = "received" => inflight'[c] = inflight[c]
          /\ (/\ inflight[c].pc = "received"
              /\ inflight'[c].pc = "handled"
              /\ inflight[c].method = "GET"
              /\ inflight[c].path = <<"version">>)
                => inflight'[c].response.data =
                      IF AppVersionSet(environ) THEN environ["APP_VERSION"]
                      ELSE "unknown"
          /\ (/\ inflight[c].pc = "received"
              /\ inflight'[c].pc = "handled"
              /\ inflight[c].method = "GET"
              /\ inflight[c].path = <<"healthz">>)
                => JsonLoads(inflight'[c].response.data) = {[status |-> "ok"]}
          /\ inflight[c].pc = "handled" =>
                inflight'[c] \in {inflight[c], Idle}]_vars

\* C10 witness: two GET /version requests in flight together, handled at
\* different values of APP_VERSION, neither body the current value: each
\* kept the value of its own instant.
C10_Witness ==
    \E c, d \in Connections :
        /\ HandledAs(c, "GET", <<"version">>)
        /\ HandledAs(d, "GET", <<"version">>)
        /\ inflight[c].response.data = "1.2.3"
        /\ inflight[d].response.data = "unknown"
        /\ environ = [k \in {"APP_VERSION"} |-> "2.0.0"]

====
